---- MODULE Spec2Model ----
(***************************************************************************)
(* Plumbing Attendance Agent (src/app/layout.tsx): the persisted document, *)
(* its mutations, the calendar utilities and the monthly aggregation.      *)
(*                                                                         *)
(* Strings are sequences of character codes ("-" is 45, "0".."9" are       *)
(* 48..57, ":" is 58, "_" is 95), so that template-string concatenation    *)
(* and the lexicographic comparison of yyyy-mm-dd keys are computed as     *)
(* JavaScript computes them.  A Date is its time value in minutes since    *)
(* the epoch (UTC); its local fields are read through the session's fixed  *)
(* time-zone offset tz (minutes east of UTC).                              *)
(***************************************************************************)
EXTENDS Integers, Sequences, FiniteSets, TLC

VARIABLES
    pc,        \* position in the mount sequence of Page: "start", "mount", "loaded", "saved", "idle"
    data,      \* usePersistentState value: [contractors, labours, attendance]
    pending,   \* state update queued by the load effect (<<>> or <<doc>>)
    store,     \* localStorage[STORAGE_KEY]: <<>> (absent), or a text
    labCtr,    \* contractor selected in the Add Labour form ("" is <<>>)
    month,     \* the month shown (a Date)
    monthRows, \* useMemo(getMonthGrid(month))
    tz,        \* local time-zone offset, minutes east of UTC
    today,     \* the wall clock read by new Date()
    nextId     \* ids newId has handed out, per prefix: [ctr, lab]

vars == <<pc, data, pending, store, labCtr, month, monthRows, tz, today, nextId>>

(***************************************************************************)
(* Bounds of the model.                                                    *)
(***************************************************************************)
MaxContractors == 2  \* contractors created in one session, and held at once
MaxLabours == 2      \* labourers created in one session, and held at once
MaxAttendance == 2   \* attendance records held at once

\* A month [year, month (0-based)] as a number.
MonthNumber(ym) == (ym[1] * 12) + ym[2]
\* Months the operator visits in the full application: February and March 2024.
AppMonths == MonthNumber(<<2024, 1>>) .. MonthNumber(<<2024, 2>>)
\* Months the operator visits in the calendar-only specification: around the
\* years 2000 (leap, divisible by 400), 2024 (leap) and 2100 (not leap).
CalMonths == (MonthNumber(<<1999, 10>>) .. MonthNumber(<<2001, 1>>))
                 \cup (MonthNumber(<<2023, 10>>) .. MonthNumber(<<2025, 1>>))
                 \cup (MonthNumber(<<2099, 10>>) .. MonthNumber(<<2101, 1>>))
\* Local time zones, in minutes east of UTC.
TzOffsets == {-300, 0, 330}
CalTzOffsets == {-720, -300, 0, 330, 840}

(***************************************************************************)
(* Date arithmetic, as ECMAScript's MakeDay / local-time conversion.       *)
(***************************************************************************)
MinutesPerDay == 24 * 60

IsLeap(y) == ((y % 4) = 0 /\ (y % 100) # 0) \/ (y % 400) = 0

LeapsBefore(y) == ((y - 1) \div 4) - ((y - 1) \div 100) + ((y - 1) \div 400)

DaysBeforeYear(y) == (365 * (y - 1970)) + LeapsBefore(y) - LeapsBefore(1970)

\* Days of a common year before month m (0-based; 12 is the whole year).
CumulativeDays == <<0, 31, 59, 90, 120, 151, 181, 212, 243, 273, 304, 334, 365>>

DaysBeforeMonth(y, m) == CumulativeDays[m + 1] + (IF m >= 2 /\ IsLeap(y) THEN 1 ELSE 0)

\* MakeDay(year, month, date): month and date may lie outside their ranges.
MakeDay(y, m, d) == DaysBeforeYear(y + (m \div 12)) + DaysBeforeMonth(y + (m \div 12), m % 12) + d - 1

YearFromDays(n) ==
    CHOOSE c \in (1970 + (n \div 366)) .. (1972 + (n \div 366)) :
        DaysBeforeYear(c) <= n /\ n < DaysBeforeYear(c + 1)

MonthFromDayInYear(y, r) ==
    CHOOSE c \in 0 .. 11 : DaysBeforeMonth(y, c) <= r /\ r < DaysBeforeMonth(y, c + 1)

FieldsInMonth(y, m, r) == [y |-> y, m |-> m, d |-> r - DaysBeforeMonth(y, m) + 1]

FieldsInYear(y, r) == FieldsInMonth(y, MonthFromDayInYear(y, r), r)

FieldsOfDay(n, y) == FieldsInYear(y, n - DaysBeforeYear(y))

\* The calendar fields [y, m (0-based), d] of a day number.
CivilFromDays(n) == FieldsOfDay(n, YearFromDays(n))

\* new Date(y, m, d) in a zone z minutes east of UTC: local midnight of that
\* day, as a UTC time value.
NewDate(z, y, m, d) == (MakeDay(y, m, d) * MinutesPerDay) - z

\* The local calendar fields of a Date.
LocalFields(z, date) == CivilFromDays((date + z) \div MinutesPerDay)
getFullYear(z, date) == LocalFields(z, date).y
getMonth(z, date) == LocalFields(z, date).m
getDate(z, date) == LocalFields(z, date).d
getDay(z, date) == (((date + z) \div MinutesPerDay) + 4) % 7

Pad2(n) == <<48 + (n \div 10), 48 + (n % 10)>>
Pad4(n) == <<48 + (n \div 1000), 48 + ((n \div 100) % 10), 48 + ((n \div 10) % 10), 48 + (n % 10)>>

FormatYMD(f) == Pad4(f.y) \o <<45>> \o Pad2(f.m + 1) \o <<45>> \o Pad2(f.d)

\* date.toISOString().slice(0, 10): the UTC calendar day of the time value,
\* whatever the local zone.
toYMD(date) == FormatYMD(CivilFromDays(date \div MinutesPerDay))

\* new Date(f.y, f.m + dm, d), for local fields f.
DateInMonth(z, f, dm, d) == NewDate(z, f.y, f.m + dm, d)

startOfMonth(z, date) == DateInMonth(z, LocalFields(z, date), 0, 1)
endOfMonth(z, date) == DateInMonth(z, LocalFields(z, date), 1, 0)
addMonths(z, date, count) == DateInMonth(z, LocalFields(z, date), count, 1)

\* for (i = 0; i < startDay; i++) cells.push(null)
RECURSIVE NullCells(_)
NullCells(n) == IF n <= 0 THEN <<>> ELSE NullCells(n - 1) \o <<(<<>>)>>

\* for (d = from; d <= daysInMonth; d++) cells.push(new Date(first.getFullYear(),
\* first.getMonth(), d)); f holds first's local fields.
RECURSIVE DayCells(_, _, _, _)
DayCells(z, f, from, daysInMonth) ==
    IF from > daysInMonth THEN <<>>
    ELSE <<(<<DateInMonth(z, f, 0, from)>>)>> \o DayCells(z, f, from + 1, daysInMonth)

\* while (cells.length % 7 !== 0) cells.push(null)
RECURSIVE PadToWeek(_)
PadToWeek(cells) == IF (Len(cells) % 7) # 0 THEN PadToWeek(Append(cells, <<>>)) ELSE cells

\* for (i = 0; i < cells.length; i += 7) rows.push(cells.slice(i, i + 7))
RECURSIVE SliceRows(_, _)
SliceRows(cells, i) ==
    IF i >= Len(cells) THEN <<>>
    ELSE <<SubSeq(cells, i + 1, IF i + 7 <= Len(cells) THEN i + 7 ELSE Len(cells))>> \o SliceRows(cells, i + 7)

GridCells(z, first, last) ==
    PadToWeek(NullCells(getDay(z, first)) \o DayCells(z, LocalFields(z, first), 1, getDate(z, last)))

\* getMonthGrid with the week starting on Monday: one leading cell too few
\* (or six too many).
getMonthGridMondayFirst(z, dateInMonth) ==
    SliceRows(PadToWeek(NullCells((getDay(z, startOfMonth(z, dateInMonth)) + 6) % 7)
                            \o DayCells(z, LocalFields(z, startOfMonth(z, dateInMonth)), 1,
                                        getDate(z, endOfMonth(z, dateInMonth)))), 0)

\* A cell is <<>> (null) or <<date>>.
getMonthGrid(z, dateInMonth) ==
    SliceRows(GridCells(z, startOfMonth(z, dateInMonth), endOfMonth(z, dateInMonth)), 0)

\* useMemo(() => getMonthGrid(month), [month]): the grid of each month that can
\* be shown, computed once per zone and month.
MonthStart(z, i) == NewDate(z, 0, i, 1)
MonthGridMemo ==
    [z \in TzOffsets \cup CalTzOffsets |-> [i \in AppMonths \cup CalMonths |-> getMonthGrid(z, MonthStart(z, i))]]
MonthIndex(z, date) == (getFullYear(z, date) * 12) + getMonth(z, date)
monthRowsOf(z, date) == MonthGridMemo[z][MonthIndex(z, date)]

(***************************************************************************)
(* Strings.                                                                *)
(***************************************************************************)
\* JavaScript's a <= b on strings: lexicographic by code unit.
RECURSIVE StrLeq(_, _)
StrLeq(a, b) ==
    IF a = <<>> THEN TRUE
    ELSE IF b = <<>> THEN FALSE
    ELSE IF a[1] < b[1] THEN TRUE
    ELSE IF a[1] > b[1] THEN FALSE
    ELSE StrLeq(Tail(a), Tail(b))

RECURSIVE TrimStart(_)
TrimStart(s) == IF s # <<>> /\ s[1] = 32 THEN TrimStart(Tail(s)) ELSE s

RECURSIVE TrimEnd(_)
TrimEnd(s) == IF s # <<>> /\ s[Len(s)] = 32 THEN TrimEnd(SubSeq(s, 1, Len(s) - 1)) ELSE s

\* String.prototype.trim, for the space character.
Trim(s) == TrimEnd(TrimStart(s))

\* newId(prefix): `${prefix}_${random}_${time}`; the random part is fresh, the
\* n-th id of a prefix carries the digit n.
newId(prefix, n) == prefix \o <<95, 48 + n, 95, 48>>

CtrPrefix == <<99, 116, 114>>
LabPrefix == <<108, 97, 98>>

(***************************************************************************)
(* Number(labRate) and Math.round, on exact decimals num/den.              *)
(***************************************************************************)
IsDigits(s) == s # <<>> /\ \A i \in DOMAIN s : s[i] \in 48 .. 57

RECURSIVE DigitsValue(_)
DigitsValue(s) == IF s = <<>> THEN 0 ELSE (10 * DigitsValue(SubSeq(s, 1, Len(s) - 1))) + (s[Len(s)] - 48)

RECURSIVE Pow10(_)
Pow10(k) == IF k = 0 THEN 1 ELSE 10 * Pow10(k - 1)

InfinityText == <<73, 110, 102, 105, 110, 105, 116, 121>>

\* The numeric value of a string: "" is 0; [+-]Infinity; [+-]digits[.digits];
\* anything else is NaN.
Number(s) ==
    IF s = <<>> THEN [kind |-> "num", num |-> 0, den |-> 1]
    ELSE
        LET signed == s[1] \in {43, 45}
            sign == IF s[1] = 45 THEN -1 ELSE 1
            body == IF signed THEN Tail(s) ELSE s
            dots == {i \in DOMAIN body : body[i] = 46}
        IN  IF body = InfinityText THEN [kind |-> "inf", num |-> sign, den |-> 1]
            ELSE IF dots = {} /\ IsDigits(body)
                THEN [kind |-> "num", num |-> sign * DigitsValue(body), den |-> 1]
            ELSE IF Cardinality(dots) = 1
                THEN LET d == CHOOSE i \in dots : TRUE
                         ip == SubSeq(body, 1, d - 1)
                         fp == SubSeq(body, d + 1, Len(body))
                     IN IF IsDigits(ip) /\ IsDigits(fp)
                        THEN [kind |-> "num",
                              num |-> sign * ((DigitsValue(ip) * Pow10(Len(fp))) + DigitsValue(fp)),
                              den |-> Pow10(Len(fp))]
                        ELSE [kind |-> "nan", num |-> 0, den |-> 1]
            ELSE [kind |-> "nan", num |-> 0, den |-> 1]

isFinite(x) == x.kind = "num"

\* Math.round(x) = floor(x + 1/2), for a finite x.
MathRound(x) == ((2 * x.num) + x.den) \div (2 * x.den)

(***************************************************************************)
(* The document and its mutations (the updaters handed to setData).        *)
(***************************************************************************)
EmptyDoc == [contractors |-> <<>>, labours |-> <<>>, attendance |-> <<>>]

\* A contractor's note of <<>> stands for undefined.
upsertContractor(prev, id, name, note) ==
    [prev EXCEPT !.contractors = Append(@, [id |-> id, name |-> name, note |-> note])]

\* prev.labours.find(l => l.id === labourId)?.contractorId; <<>> (no id) when none.
FindContractorIdOf(prev, labourId) ==
    LET hits == {i \in DOMAIN prev.labours : prev.labours[i].id = labourId}
    IN IF hits = {} THEN <<>>
       ELSE prev.labours[CHOOSE i \in hits : \A j \in hits : i <= j].contractorId

\* removeContractor without the cascade to attendance records.
removeContractorKeepAttendance(prev, id) ==
    LET KeepC(c) == c.id # id
        KeepL(l) == l.contractorId # id
    IN [contractors |-> SelectSeq(prev.contractors, KeepC),
        labours |-> SelectSeq(prev.labours, KeepL),
        attendance |-> prev.attendance]

removeContractor(prev, id) ==
    LET KeepC(c) == c.id # id
        KeepL(l) == l.contractorId # id
        KeepA(a) == FindContractorIdOf(prev, a.labourId) # id
    IN [contractors |-> SelectSeq(prev.contractors, KeepC),
        labours |-> SelectSeq(prev.labours, KeepL),
        attendance |-> SelectSeq(prev.attendance, KeepA)]

upsertLabour(prev, id, contractorId, name, dailyRate) ==
    [prev EXCEPT !.labours = Append(@, [id |-> id, contractorId |-> contractorId,
                                        name |-> name, dailyRate |-> dailyRate])]

removeLabour(prev, id) ==
    LET KeepL(l) == l.id # id
        KeepA(a) == a.labourId # id
    IN [prev EXCEPT !.labours = SelectSeq(@, KeepL), !.attendance = SelectSeq(@, KeepA)]

AttendanceId(labourId, ymd) == labourId \o <<58>> \o ymd

\* setAttendance that appends a record whether or not the pair has one.
setAttendanceAppend(prev, labourId, ymd, present) ==
    [prev EXCEPT !.attendance =
        Append(@, [id |-> AttendanceId(labourId, ymd), labourId |-> labourId, date |-> ymd,
                   present |-> present])]

\* setAttendance that flips the present value of an existing record instead
\* of storing the value handed to it.
setAttendanceFlip(prev, labourId, ymd, present) ==
    LET id == AttendanceId(labourId, ymd)
        old == prev.attendance
        exists == \E i \in DOMAIN old : old[i].id = id
        attendance ==
            IF exists
            THEN [i \in DOMAIN old |-> IF old[i].id = id THEN [old[i] EXCEPT !.present = ~@] ELSE old[i]]
            ELSE Append(old, [id |-> id, labourId |-> labourId, date |-> ymd, present |-> present])
    IN [prev EXCEPT !.attendance = attendance]

setAttendance(prev, labourId, ymd, present) ==
    LET id == AttendanceId(labourId, ymd)
        old == prev.attendance
        exists == \E i \in DOMAIN old : old[i].id = id
        attendance ==
            IF exists
            THEN [i \in DOMAIN old |-> IF old[i].id = id THEN [old[i] EXCEPT !.present = present] ELSE old[i]]
            ELSE Append(old, [id |-> id, labourId |-> labourId, date |-> ymd, present |-> present])
    IN [prev EXCEPT !.attendance = attendance]

(***************************************************************************)
(* Aggregation.                                                            *)
(***************************************************************************)
daysPresentFor(z, doc, labourId, monthDate) ==
    LET first == startOfMonth(z, monthDate)
        last == endOfMonth(z, monthDate)
        ymdFirst == toYMD(first)
        ymdLast == toYMD(last)
        Counted(a) == a.labourId = labourId /\ StrLeq(ymdFirst, a.date) /\ StrLeq(a.date, ymdLast) /\ a.present
    IN Len(SelectSeq(doc.attendance, Counted))

\* byContractor after the first n labourers: the buckets in insertion order,
\* each [key, days, amount, labourCount].
RECURSIVE ByContractor(_, _, _, _)
ByContractor(z, doc, monthDate, n) ==
    IF n = 0 THEN <<>>
    ELSE
        LET acc == ByContractor(z, doc, monthDate, n - 1)
            labour == doc.labours[n]
            days == daysPresentFor(z, doc, labour.id, monthDate)
            amount == days * labour.dailyRate
            key == labour.contractorId
            seeded == IF \E i \in DOMAIN acc : acc[i].key = key THEN acc
                      ELSE Append(acc, [key |-> key, days |-> 0, amount |-> 0, labourCount |-> 0])
        IN [i \in DOMAIN seeded |->
                IF seeded[i].key = key
                THEN [key |-> key,
                      days |-> seeded[i].days + days,
                      amount |-> seeded[i].amount + amount,
                      labourCount |-> seeded[i].labourCount + 1]
                ELSE seeded[i]]

\* Object.values(byContractor).reduce(...), over the first n buckets.
RECURSIVE Reduce(_, _)
Reduce(buckets, n) ==
    IF n = 0 THEN [days |-> 0, amount |-> 0, labourCount |-> 0]
    ELSE LET acc == Reduce(buckets, n - 1)
             v == buckets[n]
         IN [days |-> acc.days + v.days,
             amount |-> acc.amount + v.amount,
             labourCount |-> acc.labourCount + v.labourCount]

\* totals whose reduce has no initial value and starts from the first bucket,
\* losing that bucket's sums.
totalsNoInitialValue(z, doc, monthDate) ==
    LET byContractor == ByContractor(z, doc, monthDate, Len(doc.labours))
        rest == IF byContractor = <<>> THEN <<>> ELSE Tail(byContractor)
    IN [byContractor |-> byContractor, grand |-> Reduce(rest, Len(rest))]

totals(z, doc, monthDate) ==
    LET byContractor == ByContractor(z, doc, monthDate, Len(doc.labours))
    IN [byContractor |-> byContractor, grand |-> Reduce(byContractor, Len(byContractor))]

(***************************************************************************)
(* Persistence: usePersistentState.                                        *)
(***************************************************************************)
\* JSON.stringify(value): the text of a document.
Stringify(doc) == <<"json", doc>>

CorruptText == <<"corrupt">>

\* JSON.parse(raw) succeeds on the text of a document and throws otherwise.
ParseOk(raw) == raw # <<>> /\ raw[1] = "json"
Parse(raw) == raw[2]

\* The labCtr default effect, run after a render with the given contractors.
LabCtrEffect(contractors, cur) ==
    IF cur = <<>> /\ contractors # <<>> THEN contractors[1].id ELSE cur

\* A render after setData(updater): the save effect, then the labCtr effect.
Commit(next) ==
    /\ data' = next
    /\ store' = Stringify(next)
    /\ labCtr' = LabCtrEffect(next.contractors, labCtr)

(***************************************************************************)
(* Inputs.                                                                 *)
(***************************************************************************)
\* Texts typed into the name fields: "", " ", " R".
NameInputs == {<<>>, <<32>>, <<32, 82>>}
\* Texts typed into the note field: "", " ".
NoteInputs == {<<>>, <<32>>}
\* Texts typed into the rate field: "", "abc", "0", "-5", "0.4", "1.5", "2", "Infinity".
RateInputs == {<<>>, <<97, 98, 99>>, <<48>>, <<45, 53>>, <<48, 46, 52>>, <<49, 46, 53>>, <<50>>,
               InfinityText}

\* A document an earlier session saved: contractor "R" (the first contractor id),
\* labourer "R" under it at rate 2 (the first labourer id), present on 2024-03-01.
SavedDoc ==
    [contractors |-> <<[id |-> newId(CtrPrefix, 1), name |-> <<82>>, note |-> <<>>]>>,
     labours |-> <<[id |-> newId(LabPrefix, 1), contractorId |-> newId(CtrPrefix, 1),
                    name |-> <<82>>, dailyRate |-> 2]>>,
     attendance |-> <<[id |-> AttendanceId(newId(LabPrefix, 1), <<50, 48, 50, 52, 45, 48, 51, 45, 48, 49>>),
                       labourId |-> newId(LabPrefix, 1),
                       date |-> <<50, 48, 50, 52, 45, 48, 51, 45, 48, 49>>,
                       present |-> TRUE]>>]

\* What localStorage may hold when the page opens.
AppStores == {<<>>, CorruptText, Stringify(EmptyDoc), Stringify(SavedDoc)}

\* Wall-clock readings [y, m, d, minute of the day], local time.
AppClocks == {<<2024, 2, 15, 630>>}
CalClocks == {<<1999, 11, 31, 1439>>, <<2024, 1, 29, 0>>, <<2100, 0, 31, 720>>}

\* new Date(): the time value of a wall-clock reading.
ClockDate(z, c) == NewDate(z, c[1], c[2], c[3]) + c[4]

(***************************************************************************)
(* Mount: the first render of Page and its effects, in declaration order.  *)
(***************************************************************************)
\* newId never repeats an id: the ids of a stored document are taken.
IdsTaken(raw) ==
    IF ParseOk(raw)
    THEN [ctr |-> 1 + Len(Parse(raw).contractors), lab |-> 1 + Len(Parse(raw).labours)]
    ELSE [ctr |-> 1, lab |-> 1]

\* Before the first render: nothing is computed yet (month is the epoch, no grid).
InitWith(stores, clocks, zones) ==
    /\ pc = "start"
    /\ data = EmptyDoc
    /\ pending = <<>>
    /\ store \in stores
    /\ labCtr = <<>>
    /\ tz \in zones
    /\ today \in clocks
    /\ month = 0
    /\ monthRows = <<>>
    /\ nextId = IdsTaken(store)

\* The first render of Page: the useState and useMemo initialisers.
FirstRender ==
    /\ pc = "start"
    /\ month' = startOfMonth(tz, ClockDate(tz, today))
    /\ monthRows' = monthRowsOf(tz, startOfMonth(tz, ClockDate(tz, today)))
    /\ pc' = "mount"
    /\ UNCHANGED <<data, pending, store, labCtr, tz, today, nextId>>

\* The load effect: setValue(JSON.parse(raw)) queues the stored document.
LoadEffect ==
    /\ pc = "mount"
    /\ pending' = IF ParseOk(store) THEN <<Parse(store)>> ELSE <<>>
    /\ pc' = "loaded"
    /\ UNCHANGED <<data, store, labCtr, month, monthRows, tz, today, nextId>>

\* The save effect of the first render: value is still the initial document.
SaveEffect ==
    /\ pc = "loaded"
    /\ store' = Stringify(data)
    /\ pc' = "saved"
    /\ UNCHANGED <<data, pending, labCtr, month, monthRows, tz, today, nextId>>

\* The render the queued update causes, with its save and labCtr effects.
RenderLoaded ==
    /\ pc = "saved"
    /\ IF pending # <<>> THEN Commit(pending[1]) ELSE UNCHANGED <<data, store, labCtr>>
    /\ pending' = <<>>
    /\ pc' = "idle"
    /\ UNCHANGED <<month, monthRows, tz, today, nextId>>

(***************************************************************************)
(* Event handlers.                                                         *)
(***************************************************************************)
\* The labourers listed in the Labours table and in each calendar cell.  The
\* contractor filter is left at "all": any other choice lists fewer labourers
\* and so offers fewer of the same handlers.
VisibleLabours == data.labours

\* "Add contractor" with ctrName and ctrNote as typed.
AddContractorClick(ctrName, ctrNote) ==
    /\ pc = "idle"
    /\ nextId.ctr <= MaxContractors
    /\ Len(data.contractors) < MaxContractors
    /\ IF Trim(ctrName) = <<>>
       THEN UNCHANGED <<data, store, labCtr, nextId>>
       ELSE /\ Commit(upsertContractor(data, newId(CtrPrefix, nextId.ctr), Trim(ctrName), Trim(ctrNote)))
            /\ nextId' = [nextId EXCEPT !.ctr = @ + 1]
    /\ UNCHANGED <<pc, pending, month, monthRows, tz, today>>

\* "Delete" in the row of contractor number i.
RemoveContractorClick(i) ==
    /\ pc = "idle"
    /\ i \in DOMAIN data.contractors
    /\ Commit(removeContractor(data, data.contractors[i].id))
    /\ UNCHANGED <<pc, pending, month, monthRows, tz, today, nextId>>

\* Choosing option number i of the Add Labour form's contractor select.
SelectLabCtr(i) ==
    /\ pc = "idle"
    /\ i \in DOMAIN data.contractors
    /\ labCtr' = data.contractors[i].id
    /\ UNCHANGED <<pc, data, pending, store, month, monthRows, tz, today, nextId>>

\* "Add labour" with labName and labRate as typed.
AddLabourClick(labName, labRate) ==
    /\ pc = "idle"
    /\ nextId.lab <= MaxLabours
    /\ Len(data.labours) < MaxLabours
    /\ LET rate == Number(labRate)
       IN IF labCtr = <<>> \/ Trim(labName) = <<>> \/ ~isFinite(rate) \/ rate.num <= 0
          THEN UNCHANGED <<data, store, labCtr, nextId>>
          ELSE /\ Commit(upsertLabour(data, newId(LabPrefix, nextId.lab), labCtr, Trim(labName), MathRound(rate)))
               /\ nextId' = [nextId EXCEPT !.lab = @ + 1]
    /\ UNCHANGED <<pc, pending, month, monthRows, tz, today>>

\* "Delete" in the row of listed labourer number i.
RemoveLabourClick(i) ==
    /\ pc = "idle"
    /\ i \in DOMAIN VisibleLabours
    /\ Commit(removeLabour(data, VisibleLabours[i].id))
    /\ UNCHANGED <<pc, pending, month, monthRows, tz, today, nextId>>

\* The checkbox state shown for a labourer in a cell.
ShownPresent(doc, labourId, ymd) ==
    LET id == AttendanceId(labourId, ymd)
        hits == {k \in DOMAIN doc.attendance : doc.attendance[k].id = id}
    IN IF hits = {} THEN FALSE
       ELSE doc.attendance[CHOOSE k \in hits : \A j \in hits : k <= j].present

\* The cells the operator ticks: the one showing day 1.
Ticked(r, j) ==
    /\ monthRows[r][j] # <<>>
    /\ \A rr \in DOMAIN monthRows : \A jj \in DOMAIN monthRows[rr] :
          (rr < r \/ (rr = r /\ jj < j)) => monthRows[rr][jj] = <<>>

\* setAttendance(l.id, ymd, e.target.checked): the box shows `present`, so the
\* click reports its negation.
CheckboxChange(labourId, ymd) ==
    \E next \in {setAttendance(data, labourId, ymd, ~ShownPresent(data, labourId, ymd))} :
        /\ Len(next.attendance) <= MaxAttendance
        /\ Commit(next)

\* Clicking the checkbox of listed labourer number i in the cell at row r, column j.
ToggleAttendance(i, r, j) ==
    /\ pc = "idle"
    /\ i \in DOMAIN VisibleLabours
    /\ r \in DOMAIN monthRows
    /\ j \in DOMAIN monthRows[r]
    /\ Ticked(r, j)
    /\ \E ymd \in {toYMD(monthRows[r][j][1])} : CheckboxChange(VisibleLabours[i].id, ymd)
    /\ UNCHANGED <<pc, pending, month, monthRows, tz, today, nextId>>

ShowMonth(date) ==
    /\ pc = "idle"
    /\ month' = date
    /\ monthRows' = monthRowsOf(tz, date)
    /\ UNCHANGED <<pc, data, pending, store, labCtr, tz, today, nextId>>

\* The month header's buttons; months holds the months visited.
PrevMonth(months) ==
    /\ MonthIndex(tz, month) - 1 \in months
    /\ ShowMonth(addMonths(tz, month, -1))

NextMonth(months) ==
    /\ MonthIndex(tz, month) + 1 \in months
    /\ ShowMonth(addMonths(tz, month, 1))

ThisMonth == ShowMonth(startOfMonth(tz, ClockDate(tz, today)))

(***************************************************************************)
(* Specifications.                                                         *)
(***************************************************************************)
Init == InitWith(AppStores, AppClocks, TzOffsets)

Next ==
    \/ FirstRender
    \/ LoadEffect
    \/ SaveEffect
    \/ RenderLoaded
    \/ \E n \in NameInputs, t \in NoteInputs : AddContractorClick(n, t)
    \/ \E i \in 1 .. MaxContractors : RemoveContractorClick(i)
    \/ \E i \in 1 .. MaxContractors : SelectLabCtr(i)
    \/ \E n \in NameInputs, r \in RateInputs : AddLabourClick(n, r)
    \/ \E i \in 1 .. MaxLabours : RemoveLabourClick(i)
    \/ \E i \in 1 .. MaxLabours, r \in 1 .. 6, j \in 1 .. 7 : ToggleAttendance(i, r, j)
    \/ PrevMonth(AppMonths)
    \/ NextMonth(AppMonths)
    \/ ThisMonth

Spec == Init /\ [][Next]_vars

\* The calendar alone: a session that only pages through months.
InitCal == InitWith({<<>>}, CalClocks, CalTzOffsets)

NextCal ==
    \/ FirstRender
    \/ LoadEffect
    \/ SaveEffect
    \/ RenderLoaded
    \/ PrevMonth(CalMonths)
    \/ NextMonth(CalMonths)
    \/ ThisMonth

SpecCal == InitCal /\ [][NextCal]_vars

(***************************************************************************)
(* Properties.                                                             *)
(***************************************************************************)
\* res is orig restricted to the positions K, in the same order: position i
\* of K lands at its rank among K.
IsRestriction(orig, res, K) ==
    /\ Len(res) = Cardinality(K)
    /\ \A i \in K : res[Cardinality({k \in K : k <= i})] = orig[i]

ContractorIds(doc) == {doc.contractors[i].id : i \in DOMAIN doc.contractors}
LabourIds(doc) == {doc.labours[i].id : i \in DOMAIN doc.labours}

\* C1: every Labourer's contractorId is the id of a Contractor of the document.
C1_ReferentialIntegrity ==
    \A i \in DOMAIN data.labours : data.labours[i].contractorId \in ContractorIds(data)

\* Contractor ids removeContractor may be handed: every id the session can
\* create, whether or not it is in the document.
AnyContractorIds == {newId(CtrPrefix, n) : n \in 1 .. MaxContractors + 1}

LaboursOf(doc, C) == {doc.labours[i].id : i \in {k \in DOMAIN doc.labours : doc.labours[k].contractorId = C}}

RemoveContractorFrame(doc, C, res) ==
    /\ IsRestriction(doc.contractors, res.contractors,
                     {i \in DOMAIN doc.contractors : doc.contractors[i].id # C})
    /\ IsRestriction(doc.labours, res.labours,
                     {i \in DOMAIN doc.labours : doc.labours[i].contractorId # C})
    /\ IsRestriction(doc.attendance, res.attendance,
                     {i \in DOMAIN doc.attendance : doc.attendance[i].labourId \notin LaboursOf(doc, C)})
    /\ C \notin ContractorIds(res)
    /\ \A i \in DOMAIN res.labours : res.labours[i].contractorId # C
    /\ \A i \in DOMAIN res.attendance : res.attendance[i].labourId \notin LaboursOf(doc, C)
    /\ (C \notin ContractorIds(doc) /\ LaboursOf(doc, C) = {}) => res = doc

\* C2: removeContractor(C) removes contractor C, its labourers and their
\* attendance records, keeps everything else in order, and changes nothing
\* when C names no contractor and no labourer refers to it.
C2_RemoveContractorCascade ==
    \A C \in AnyContractorIds : RemoveContractorFrame(data, C, removeContractor(data, C))

\* A document in which removing the first contractor takes a labourer and a
\* record away and leaves another contractor's labourer and record, in a
\* session that knows an id no contractor bears.
C2_Witness ==
    /\ Len(data.contractors) = 2
    /\ Len(data.labours) = 2
    /\ Len(data.attendance) = 2
    /\ data.labours[1].contractorId = data.contractors[1].id
    /\ data.labours[2].contractorId = data.contractors[2].id
    /\ data.attendance[1].labourId = data.labours[2].id
    /\ data.attendance[2].labourId = data.labours[1].id
    /\ Len(removeContractor(data, data.contractors[1].id).attendance) = 1
    /\ AnyContractorIds \ ContractorIds(data) # {}

\* C3: at most one record per (labourId, date); each id is "<labourId>:<date>";
\* setAttendance on a pair that has a record changes that record's present
\* value and nothing else.
C3_OneRecordPerDay ==
    /\ \A i, j \in DOMAIN data.attendance :
          (data.attendance[i].labourId = data.attendance[j].labourId
              /\ data.attendance[i].date = data.attendance[j].date) => i = j
    /\ \A i \in DOMAIN data.attendance :
          data.attendance[i].id = data.attendance[i].labourId \o <<58>> \o data.attendance[i].date
    /\ \A i \in DOMAIN data.attendance : \A p \in BOOLEAN :
          setAttendance(data, data.attendance[i].labourId, data.attendance[i].date, p)
              = [data EXCEPT !.attendance[i].present = p]

\* Two records of one labourer, one of them unticked again.
C3_Witness ==
    /\ Len(data.attendance) = 2
    /\ data.attendance[1].labourId = data.attendance[2].labourId
    /\ ~data.attendance[1].present
    /\ data.attendance[2].present

\* The year, month and day written in a yyyy-mm-dd text.
YearOfYMD(ymd) == ((ymd[1] - 48) * 1000) + ((ymd[2] - 48) * 100) + ((ymd[3] - 48) * 10) + (ymd[4] - 48)
MonthOfYMD(ymd) == ((ymd[6] - 48) * 10) + (ymd[7] - 48)
DayOfYMD(ymd) == ((ymd[9] - 48) * 10) + (ymd[10] - 48)

\* Length of month m (1..12) of year y, by the calendar's rule.
CalendarDaysIn(y, m) ==
    IF m = 2 THEN (IF (y % 400) = 0 \/ ((y % 4) = 0 /\ (y % 100) # 0) THEN 29 ELSE 28)
    ELSE IF m \in {4, 6, 9, 11} THEN 30 ELSE 31

\* C4: daysPresent(doc, L, m) is the number of present records of L dated
\* from the first to the last local calendar day of m.
C4_DaysPresentInMonth ==
    pc = "idle" =>
        \A i \in DOMAIN data.labours :
            daysPresentFor(tz, data, data.labours[i].id, month)
                = Cardinality({k \in DOMAIN data.attendance :
                      /\ data.attendance[k].labourId = data.labours[i].id
                      /\ data.attendance[k].present
                      /\ YearOfYMD(data.attendance[k].date) = getFullYear(tz, month)
                      /\ MonthOfYMD(data.attendance[k].date) = getMonth(tz, month) + 1
                      /\ DayOfYMD(data.attendance[k].date) \in
                            1 .. CalendarDaysIn(getFullYear(tz, month), getMonth(tz, month) + 1)})

RECURSIVE SeqSum(_)
SeqSum(q) == IF Len(q) = 0 THEN 0 ELSE q[1] + SeqSum(Tail(q))

\* daysPresent of the first n labourers in the month shown, one entry each.
RECURSIVE LabourDays(_)
LabourDays(n) ==
    IF n = 0 THEN <<>>
    ELSE Append(LabourDays(n - 1), daysPresentFor(tz, data, data.labours[n].id, month))

\* Whether labourer number i counts towards `key`: a contractor id, or <<>> for all.
CountsFor(i, key) == key = <<>> \/ data.labours[i].contractorId = key

\* The three sums over the labourers counting towards `key`, given their days.
SumsOf(key, days) ==
    [days |-> SeqSum([i \in DOMAIN data.labours |-> IF CountsFor(i, key) THEN days[i] ELSE 0]),
     amount |-> SeqSum([i \in DOMAIN data.labours |->
                           IF CountsFor(i, key) THEN days[i] * data.labours[i].dailyRate ELSE 0]),
     labourCount |-> Cardinality({i \in DOMAIN data.labours : CountsFor(i, key)})]

BucketSums(b) == [days |-> b.days, amount |-> b.amount, labourCount |-> b.labourCount]

TotalsAreSums(t, days) ==
    /\ t.grand = SumsOf(<<>>, days)
    /\ t.grand.labourCount = Len(data.labours)
    /\ \A b \in DOMAIN t.byContractor : BucketSums(t.byContractor[b]) = SumsOf(t.byContractor[b].key, days)
    /\ \A b, c \in DOMAIN t.byContractor : t.byContractor[b].key = t.byContractor[c].key => b = c
    /\ {t.byContractor[b].key : b \in DOMAIN t.byContractor}
          = {data.labours[i].contractorId : i \in DOMAIN data.labours}

\* C5: the grand totals are the sums over all labourers of daysPresent,
\* daysPresent * dailyRate and 1; each contractor's bucket holds the same sums
\* over that contractor's labourers, one bucket per contractor that has any.
C5_TotalsAreSums ==
    pc = "idle" =>
        \A t \in {totals(tz, data, month)} : \A days \in {LabourDays(Len(data.labours))} :
            TotalsAreSums(t, days)

\* Two labourers of two contractors, each with a day counted in the month shown.
C5_Witness ==
    /\ pc = "idle"
    /\ Len(data.labours) = 2
    /\ data.labours[1].contractorId # data.labours[2].contractorId
    /\ data.labours[1].dailyRate = 2
    /\ data.labours[2].dailyRate = 2
    /\ Len(data.attendance) = 2
    /\ data.attendance[1].present
    /\ data.attendance[2].present
    /\ \E t \in {totals(tz, data, month)} :
          Len(t.byContractor) = 2 /\ t.grand.days = 2 /\ t.grand.amount = 4

\* C6: every stored Labourer has a dailyRate of at least 1.
C6_RatePositive ==
    \A i \in DOMAIN data.labours : data.labours[i].dailyRate >= 1

\* Weekday (0 = Sunday) of day d of month m (1..12) of year y, by Sakamoto's rule.
WeekdayOffsets == <<0, 3, 2, 5, 0, 3, 5, 1, 4, 6, 2, 4>>
CalendarWeekday(y, m, d) ==
    LET yy == IF m < 3 THEN y - 1 ELSE y
    IN (yy + (yy \div 4) - (yy \div 100) + (yy \div 400) + WeekdayOffsets[m] + d) % 7

GridCell(rows, k) == rows[((k - 1) \div 7) + 1][((k - 1) % 7) + 1]

GridShape(rows, z, y, m, pad, dim) ==
    /\ \A r \in DOMAIN rows : Len(rows[r]) = 7
    /\ (Len(rows) - 1) * 7 < pad + dim
    /\ pad + dim <= Len(rows) * 7
    /\ \A k \in 1 .. (Len(rows) * 7) :
          IF k <= pad \/ k > pad + dim
          THEN GridCell(rows, k) = <<>>
          ELSE /\ Len(GridCell(rows, k)) = 1
               /\ LocalFields(z, GridCell(rows, k)[1]) = [y |-> y, m |-> m, d |-> k - pad]
    /\ \E j \in 1 .. 7 : rows[Len(rows)][j] # <<>>

\* C7: the grid of the month shown has rows of 7 cells, as many leading empty
\* cells as the weekday of day 1, then the days 1..daysInMonth in order, then
\* empty cells, in ceil((leadingPad + daysInMonth) / 7) rows.
C7_MonthGrid ==
    pc # "start" =>
        GridShape(monthRows, tz, getFullYear(tz, month), getMonth(tz, month),
                  CalendarWeekday(getFullYear(tz, month), getMonth(tz, month) + 1, 1),
                  CalendarDaysIn(getFullYear(tz, month), getMonth(tz, month) + 1))

\* February 2100 (28 days, not a leap year) reached by paging, east of UTC.
C7_Witness ==
    /\ pc = "idle"
    /\ tz > 0
    /\ MonthIndex(tz, month) = MonthNumber(<<2100, 1>>)
    /\ Len(monthRows) = 5
    /\ monthRows[1][1] = <<>>
    /\ monthRows[1][2] # <<>>
    /\ month # startOfMonth(tz, ClockDate(tz, today))

\* Dates setAttendance may be handed: those of the document, and two more.
AnyDates ==
    {data.attendance[i].date : i \in DOMAIN data.attendance}
        \cup {<<50, 48, 50, 52, 45, 48, 50, 45, 50, 57>>, <<50, 48, 50, 52, 45, 48, 51, 45, 48, 49>>}

\* Labourer ids setAttendance may be handed: those of the document, and one more.
AnyLabourIds == LabourIds(data) \cup {newId(LabPrefix, MaxLabours + 1)}

\* C8: setAttendance(L, D, p) applied twice gives the document it gives
\* applied once, whether or not a record for (L, D) existed.
C8_SetAttendanceIdempotent ==
    \A L \in AnyLabourIds : \A D \in AnyDates : \A p \in BOOLEAN :
        setAttendance(setAttendance(data, L, D, p), L, D, p) = setAttendance(data, L, D, p)

\* One labourer has a record on a date and another has none on it.
C8_Witness ==
    /\ Len(data.labours) = 2
    /\ Len(data.attendance) = 1
    /\ data.attendance[1].labourId = data.labours[1].id
    /\ ~data.attendance[1].present

\* C9: from process start to the first user mutation no step changes a store
\* that holds a valid document.
C9_StartupKeepsStore ==
    [][(pc # "idle" /\ ParseOk(store)) => store' = store]_vars

\* C10: ticking labourer i in the cell showing day d of the month shown
\* creates or updates the record dated yyyy-mm-dd of that local day.
C10_CellDate ==
    [][\A i \in 1 .. MaxLabours, r \in 1 .. 6, j \in 1 .. 7 :
          ToggleAttendance(i, r, j) =>
              \E k \in DOMAIN data'.attendance :
                  /\ data'.attendance[k].labourId = data.labours[i].id
                  /\ data'.attendance[k].date =
                        FormatYMD([y |-> getFullYear(tz, month), m |-> getMonth(tz, month),
                                   d |-> getDate(tz, monthRows[r][j][1])])
                  /\ (k \in DOMAIN data.attendance => data.attendance[k] # data'.attendance[k])]_vars

====
